---- MODULE Spec2Model ----
(***************************************************************************)
(* Model of src/app.py: the GoCardless balance-to-spreadsheet script.      *)
(*                                                                         *)
(* Strings that the code takes apart (the BALANCE_TYPE_PREFERENCE value,   *)
(* balance-type labels) are sequences of symbols: a symbol is a comma, a   *)
(* space, or an unsplittable run of other characters.  JSON objects are    *)
(* functions from key strings to values, so that a missing key is a key    *)
(* outside DOMAIN.  Every external call an invocation makes is appended to *)
(* that invocation's log with the ground-truth outcome of the call.        *)
(***************************************************************************)
EXTENDS Integers, Sequences, FiniteSets

VARIABLES
    now,                 \* time.time(), in seconds
    data_dir_exists,     \* DATA_DIR exists on disk
    cache,               \* content of TOKEN_CACHE_PATH
    pc,                  \* per invocation: where it is in its call chain
    cmd,                 \* per invocation: args.func
    refresh,             \* per invocation: local `refresh` of get_refresh_token_cached
    refresh_expires_at,  \* per invocation: local `refresh_expires_at`
    issued,              \* per invocation: body and time of the 2xx /token/new/ answer
    out,                 \* per invocation: body returned by gc_get / gc_post
    values,              \* per invocation: the row cmd_run / cmd_balance built
    err,                 \* per invocation: the exception that ended it
    log,                 \* per invocation: the external calls made so far
    dir_path,            \* argument of a stand-alone find_single_json call
    found,               \* its result
    balances_json,       \* argument of a stand-alone choose_balance call
    env_pref,            \* os.environ BALANCE_TYPE_PREFERENCE for that call
    selected             \* its result

vars == <<now, data_dir_exists, cache, pc, cmd, refresh, refresh_expires_at,
          issued, out, values, err, log, dir_path, found, balances_json,
          env_pref, selected>>

procVars == <<pc, cmd, refresh, refresh_expires_at, issued, out, values, err, log>>
diskVars == <<now, data_dir_exists, cache>>
secretsVars == <<dir_path, found>>
balanceVars == <<balances_json, env_pref, selected>>

-----------------------------------------------------------------------------
(* Bounds of the model *)

MaxTicks == 4        \* the clock runs over 0 .. MaxTicks * TickStep
MaxLifeSteps == 3    \* server lifetimes run over 0 .. MaxLifeSteps * TickStep
MaxFiles == 2        \* entries in a secrets directory
MaxBalances == 2     \* records in a balances payload
MaxPrefLen == 3      \* symbols in a BALANCE_TYPE_PREFERENCE value

(* Program constants *)

Margin == 60

TickStep == Margin \div 2

Procs == {"inv1", "inv2"}

None == "None"       \* Python None / an unset local

Times == {k * TickStep : k \in 0..MaxTicks}
Lifetimes == {k * TickStep : k \in 0..MaxLifeSteps}
Tokens == {"r1", "r2"}

-----------------------------------------------------------------------------
(* Python helpers *)

\* dict.get(key, default)
Get(d, key, default) == IF key \in DOMAIN d THEN d[key] ELSE default

Has(d, key) == key \in DOMAIN d

Max(S) == CHOOSE x \in S : \A y \in S : y <= x

\* All sequences over S of length at most n
SeqsUpTo(S, n) == UNION {[1..k -> S] : k \in 0..n}

-----------------------------------------------------------------------------
(* find_single_json *)

JsonSuffix == ".json"

\* str.lower() on the suffixes the model uses
Lower(s) == IF s = ".JSON" THEN ".json" ELSE s

DirEntries == [stem : {"a", "b"}, suffix : {".json", ".JSON", ".txt"}, is_file : BOOLEAN]

\* A path is missing, a plain file, or a directory with entries of distinct names
DirStates ==
    {[kind |-> "missing", entries |-> {}], [kind |-> "file", entries |-> {}]} \cup
    {[kind |-> "dir", entries |-> es] : es \in
        {s \in SUBSET DirEntries :
            /\ Cardinality(s) <= MaxFiles
            /\ \A e1, e2 \in s :
                 (e1.stem = e2.stem /\ e1.suffix = e2.suffix) => e1 = e2}}

JsonFiles(d) == {p \in d.entries : p.is_file /\ Lower(p.suffix) = JsonSuffix}

\* variant: the first .json file is taken when there are several
find_single_json_any(d) ==
    IF d.kind = "missing" THEN [ok |-> FALSE, err |-> "RuntimeError", n |-> 0]
    ELSE IF d.kind = "file" THEN [ok |-> FALSE, err |-> "NotADirectoryError", n |-> 0]
    ELSE LET files == JsonFiles(d) IN
         IF Cardinality(files) = 0
         THEN [ok |-> FALSE, err |-> "RuntimeError", n |-> Cardinality(files)]
         ELSE [ok |-> TRUE, file |-> CHOOSE f \in files : TRUE]

\* lines 22-28
find_single_json(d) ==
    IF d.kind = "missing" THEN [ok |-> FALSE, err |-> "RuntimeError", n |-> 0]
    ELSE IF d.kind = "file" THEN [ok |-> FALSE, err |-> "NotADirectoryError", n |-> 0]
    ELSE LET files == JsonFiles(d) IN
         IF Cardinality(files) # 1
         THEN [ok |-> FALSE, err |-> "RuntimeError", n |-> Cardinality(files)]
         ELSE [ok |-> TRUE, file |-> CHOOSE f \in files : TRUE]

-----------------------------------------------------------------------------
(* choose_balance *)

Comma == ","
Space == " "

DefaultPreference ==
    <<"closingBooked", Comma, "closingAvailable", Comma, "interimBooked", Comma,
      "interimAvailable", Comma, "expected">>

\* str.split(",")
RECURSIVE Split(_)
Split(s) ==
    IF \A i \in 1..Len(s) : s[i] # Comma THEN <<s>>
    ELSE LET i == CHOOSE j \in 1..Len(s) :
                     s[j] = Comma /\ \A k \in 1..(j - 1) : s[k] # Comma
         IN <<SubSeq(s, 1, i - 1)>> \o Split(SubSeq(s, i + 1, Len(s)))

\* str.strip()
RECURSIVE Strip(_)
Strip(s) ==
    IF s = <<>> THEN s
    ELSE IF Head(s) = Space THEN Strip(Tail(s))
    ELSE IF s[Len(s)] = Space THEN Strip(SubSeq(s, 1, Len(s) - 1))
    ELSE s

\* [p.strip() for p in preferred if p.strip()]
RECURSIVE StripAll(_)
StripAll(ps) ==
    IF ps = <<>> THEN <<>>
    ELSE (IF Strip(Head(ps)) # <<>> THEN <<Strip(Head(ps))>> ELSE <<>>)
         \o StripAll(Tail(ps))

\* (os.environ.get("BALANCE_TYPE_PREFERENCE") or default).split(","), stripped;
\* the empty sequence stands for an unset variable and for an empty one
Preferred(env) ==
    StripAll(Split(IF env = <<>> THEN DefaultPreference ELSE env))

\* b.get("balanceType"); the empty label stands for a missing key, None and ""
TypeOf(b) == Get(b, "balanceType", <<>>)

\* truth value of a label, and of a plain string or None
Truthy(v) == v # <<>>
TruthyStr(v) == v # None /\ v # ""

\* {b.get("balanceType"): b for b in balances if b.get("balanceType")}
ByTypeKeys(balances) ==
    {TypeOf(balances[i]) : i \in {j \in 1..Len(balances) : Truthy(TypeOf(balances[j]))}}

ByType(balances) ==
    [t \in ByTypeKeys(balances) |->
        balances[Max({i \in 1..Len(balances) : TypeOf(balances[i]) = t})]]

\* Decimal(str) and str(Decimal) on the amounts the model uses
Decimal(s) ==
    IF s = "1.00" THEN [valid |-> TRUE, coeff |-> 100, exp |-> 0 - 2]
    ELSE IF s = "2.5" THEN [valid |-> TRUE, coeff |-> 25, exp |-> 0 - 1]
    ELSE [valid |-> FALSE]             \* decimal.InvalidOperation

DecimalValid(d) == d.valid

DecimalStr(d) ==
    IF d.coeff = 100 /\ d.exp = 0 - 2 THEN "1.00"
    ELSE IF d.coeff = 25 /\ d.exp = 0 - 1 THEN "2.5"
    ELSE "?"

\* variant: the payload is scanned in its own order for a preferred type
Choose_payload_order(balances, preferred) ==
    LET hits == {i \in 1..Len(balances) :
                    \E k \in 1..Len(preferred) : TypeOf(balances[i]) = preferred[k]}
    IN IF hits = {} THEN balances[1]
       ELSE balances[CHOOSE i \in hits : \A j \in hits : i <= j]

\* lines 124-131
Choose(balances, preferred) ==
    LET by_type == ByType(balances)
        hits == {k \in 1..Len(preferred) : preferred[k] \in DOMAIN by_type}
    IN IF hits = {} THEN balances[1]
       ELSE by_type[preferred[CHOOSE k \in hits : \A j \in hits : k <= j]]

choose_balance(json, env) ==
    LET balances == Get(json, "balances", <<>>) IN
    IF balances = <<>> THEN [ok |-> FALSE, err |-> "RuntimeError"]
    ELSE LET chosen == Choose(balances, Preferred(env))
             amt == Decimal(chosen["balanceAmount"]["amount"])
             cur == chosen["balanceAmount"]["currency"]
             btype == Get(chosen, "balanceType", <<>>)
             ref == IF TruthyStr(Get(chosen, "referenceDate", None))
                    THEN chosen["referenceDate"]
                    ELSE IF TruthyStr(Get(chosen, "lastChangeDateTime", None))
                    THEN chosen["lastChangeDateTime"]
                    ELSE ""
         IN IF ~DecimalValid(amt) THEN [ok |-> FALSE, err |-> "InvalidOperation"]
            ELSE [ok |-> TRUE, amt |-> amt, cur |-> cur, btype |-> btype, ref |-> ref]

\* Inputs of choose_balance
TypeLabels == {<<"closingBooked">>, <<"interimAvailable">>, <<"x">>}
Amounts == {"1.00", "2.5", "n/a"}
TypedRecords ==
    [balanceType : TypeLabels,
     balanceAmount : [amount : Amounts, currency : {"EUR"}],
     lastChangeDateTime : {"t1"}]
UntypedRecords ==
    [balanceAmount : [amount : Amounts, currency : {"EUR"}],
     referenceDate : {"d1"}]
BalanceRecords == TypedRecords \cup UntypedRecords
Payloads == {[balances |-> bs] : bs \in SeqsUpTo(BalanceRecords, MaxBalances)}
             \cup {<<>>}
PrefSymbols == {"closingBooked", "interimAvailable", Comma, Space}
PrefEnvs == SeqsUpTo(PrefSymbols, MaxPrefLen)

-----------------------------------------------------------------------------
(* The token cache file and the token endpoints *)

CacheAbsent == [kind |-> "absent", data |-> <<>>]
CacheGarbage == [kind |-> "garbage", data |-> <<>>]   \* not JSON
CacheList == [kind |-> "list", data |-> <<>>]         \* JSON, but no object
CacheObject(d) == [kind |-> "object", data |-> d]

\* Objects a cache file can hold when an invocation starts
StaleObjects ==
    {<<>>} \cup [refresh : {"", "r0"}] \cup [refresh_expires_at : Lifetimes]
    \cup [refresh : {"", "r0"}, refresh_expires_at : Lifetimes]

InitCaches == {CacheAbsent, CacheGarbage, CacheList} \cup {CacheObject(d) : d \in StaleObjects}

\* variant: a missing expiry counts as long past
ExpAt_missing_is_expired(data) ==
    IF Has(data, "refresh_expires_at") THEN data["refresh_expires_at"] ELSE 1

\* int(cache.get("refresh_expires_at", 0) or 0)
ExpAt(data) ==
    IF Has(data, "refresh_expires_at") THEN data["refresh_expires_at"] ELSE 0

\* variant: expiry 0 is compared like any other expiry
CacheValid_zero_checked(r, exp_at, t) == TruthyStr(r) /\ t < exp_at - Margin

\* variant: the token is used up to its expiry
CacheValid_no_margin(r, exp_at, t) == TruthyStr(r) /\ (exp_at = 0 \/ t < exp_at)

\* refresh and (exp_at == 0 or time.time() < exp_at - 60)
CacheValid(r, exp_at, t) == TruthyStr(r) /\ (exp_at = 0 \/ t < exp_at - Margin)

\* variant: the expiry is not stored
CacheRecord_no_expiry(r, exp_at) ==
    CacheObject([refresh |-> r, refresh_expires_at |-> 0])

\* variant: a file that already records a later expiry is kept
CacheRecord_keep_later(r, exp_at) ==
    IF cache.kind = "object" /\ ExpAt(cache.data) > exp_at
    THEN cache
    ELSE CacheObject([refresh |-> r, refresh_expires_at |-> exp_at])

\* json.dumps({"refresh": refresh, "refresh_expires_at": refresh_expires_at})
CacheRecord(r, exp_at) ==
    CacheObject([refresh |-> r, refresh_expires_at |-> exp_at])

Statuses == {200, 401, 503}

\* variant: the status is not looked at
RaiseForStatus_never(status) == FALSE

\* requests.Response.raise_for_status
RaiseForStatus(status) == 400 <= status /\ status < 600

Success(status) == 200 <= status /\ status < 300

\* variant: the lifetime is added even when it is 0
ExpiresAt_always_added(refresh_expires, t) == t + refresh_expires

\* int(time.time()) + refresh_expires if refresh_expires else 0
ExpiresAt(refresh_expires, t) ==
    IF refresh_expires # 0 THEN t + refresh_expires ELSE 0

\* Bodies of a /token/new/ answer and of a /token/refresh/ answer
NewBodies ==
    {<<>>} \cup [refresh : Tokens] \cup [refresh : Tokens, refresh_expires : Lifetimes]
RefreshBodies == {<<>>, [access |-> "a1"]}

\* load_gcbad_user_secrets: a or b or c or d over the accepted spellings
IdKeys == <<"secret_id", "secretId", "SECRET_ID", "id">>
KeyKeys == <<"secret_key", "secretKey", "SECRET_KEY", "key">>

RECURSIVE FirstTruthy(_, _)
FirstTruthy(data, keys) ==
    IF Len(keys) = 1 THEN Get(data, keys[1], None)
    ELSE IF TruthyStr(Get(data, Head(keys), None)) THEN data[Head(keys)]
    ELSE FirstTruthy(data, Tail(keys))

AllSecretKeys == {IdKeys[i] : i \in 1..4} \cup {KeyKeys[i] : i \in 1..4}
SecretObjects ==
    UNION {[K -> {"", "s"}] : K \in {S \in SUBSET AllSecretKeys : Cardinality(S) <= 2}}
SecretFiles == {[json |-> FALSE, data |-> <<>>]} \cup {[json |-> TRUE, data |-> d] : d \in SecretObjects}

\* cmd_run's three required variables
EnvVars == <<"GC_ACCOUNT_ID", "GSHEET_ID", "GSHEET_RANGE">>
EnvNames == {EnvVars[i] : i \in 1..3}

\* variant: the variables are not checked
EnvComplete_unchecked(env) == TRUE

\* lines 194-199

EnvComplete(env) == \A i \in 1..3 : EnvVars[i] \in env

Cmds == {"institutions", "create-requisition", "requisition", "balance", "run"}

RaceCmds == {"requisition"}

\* Inside a command the balances answer has at most one record and the
\* preference variable is unset or names one type; choose_balance over its
\* whole input range is SpecBalance
ApiPayloads == {b \in Payloads : Len(Get(b, "balances", <<>>)) <= 1}
ApiPrefEnvs == {<<>>, <<"interimAvailable">>}

\* What the cache file holds when line 71 looks at it at time t
Saw(c, t) ==
    IF c.kind # "object" THEN c.kind
    ELSE IF ~Has(c.data, "refresh") THEN "no_refresh"
    ELSE IF c.data["refresh"] = "" THEN "empty_refresh"
    ELSE IF ~Has(c.data, "refresh_expires_at") THEN "no_expiry"
    ELSE IF c.data["refresh_expires_at"] = 0 THEN "zero"
    ELSE IF t < c.data["refresh_expires_at"] - Margin THEN "future"
    ELSE "stale"

-----------------------------------------------------------------------------
(* One invocation of the script *)

Event(op, ok) == [op |-> op, ok |-> ok, saw |-> None]

Logged(p, op, ok) == log' = [log EXCEPT ![p] = Append(@, Event(op, ok))]

LoggedRead(p, saw) ==
    log' = [log EXCEPT ![p] =
               Append(@, [op |-> "cache_read", ok |-> saw \notin {"garbage", "list", "torn"},
                          saw |-> saw])]

\* the locals of the frames on the stack
locals == <<refresh, refresh_expires_at, out, values>>

\* the call chain goes on at `where`
Goto(p, where) == pc' = [pc EXCEPT ![p] = where] /\ err' = err

\* an exception nobody catches: the stack unwinds and the process ends
Raise(p, e) ==
    /\ pc' = [pc EXCEPT ![p] = "failed"]
    /\ err' = [err EXCEPT ![p] = e]
    /\ refresh' = [refresh EXCEPT ![p] = None]
    /\ refresh_expires_at' = [refresh_expires_at EXCEPT ![p] = 0]
    /\ out' = [out EXCEPT ![p] = <<>>]
    /\ values' = [values EXCEPT ![p] = <<>>]

\* main: one invocation at a time, as the external trigger is meant to run it
Start(p) ==
    /\ \A q \in Procs : pc[q] = "idle"
    /\ \E c \in Cmds :
         /\ cmd' = [cmd EXCEPT ![p] = c]
         /\ pc' = [pc EXCEPT ![p] = IF c = "run" THEN "cmd_run" ELSE "get_refresh"]
    /\ UNCHANGED <<diskVars, locals, issued, err, log, secretsVars, balanceVars>>

\* main, started while another invocation may be running
StartConcurrent(p) ==
    /\ pc[p] = "idle"
    /\ \E c \in RaceCmds :
         /\ cmd' = [cmd EXCEPT ![p] = c]
         /\ pc' = [pc EXCEPT ![p] = "get_refresh"]
    /\ UNCHANGED <<diskVars, locals, issued, err, log, secretsVars, balanceVars>>

\* cmd_run, lines 190-199: env is the set of variables that are set and non-empty
EnvCheck(p) ==
    /\ pc[p] = "cmd_run"
    /\ \E env \in SUBSET EnvNames :
         /\ Logged(p, "env_check", \A i \in 1..3 : EnvVars[i] \in env)
         /\ IF EnvComplete(env)
            THEN Goto(p, "get_refresh") /\ UNCHANGED locals
            ELSE Raise(p, "RuntimeError")
    /\ UNCHANGED <<diskVars, cmd, issued, secretsVars, balanceVars>>

\* get_refresh_token_cached, lines 69-76
CacheCheck(p) ==
    /\ pc[p] = "get_refresh"
    /\ data_dir_exists' = TRUE
    /\ LoggedRead(p, Saw(cache, now))
    /\ IF cache.kind = "absent" THEN
            Goto(p, "load_secrets") /\ UNCHANGED locals
       ELSE IF cache.kind = "garbage" THEN
            Raise(p, "JSONDecodeError")
       ELSE IF cache.kind = "list" THEN
            Raise(p, "AttributeError")
       ELSE LET r == Get(cache.data, "refresh", None)
                exp_at == ExpAt(cache.data)
            IN /\ refresh' = [refresh EXCEPT ![p] = r]
               /\ UNCHANGED <<refresh_expires_at, out, values>>
               /\ IF CacheValid(r, exp_at, now)
                  THEN Goto(p, "token_refresh")
                  ELSE Goto(p, "load_secrets")
    /\ UNCHANGED <<now, cache, cmd, issued, secretsVars, balanceVars>>

\* line 72 while another invocation is inside write_text: the file is seen
\* truncated or half written
TornRead(p) ==
    /\ pc[p] = "get_refresh"
    /\ \E q \in Procs \ {p} : pc[q] = "write_cache"
    /\ data_dir_exists' = TRUE
    /\ LoggedRead(p, "torn")
    /\ Raise(p, "JSONDecodeError")
    /\ UNCHANGED <<now, cache, cmd, issued, secretsVars, balanceVars>>

\* load_gcbad_user_secrets, line 36
FindSecrets(p) ==
    /\ pc[p] = "load_secrets"
    /\ \E d \in DirStates :
         LET f == find_single_json(d) IN
         /\ Logged(p, "secrets_lookup", f.ok)
         /\ IF f.ok
            THEN Goto(p, "read_secrets") /\ UNCHANGED locals
            ELSE Raise(p, f.err)
    /\ UNCHANGED <<diskVars, cmd, issued, secretsVars, balanceVars>>

\* load_gcbad_user_secrets, lines 37-45
ReadSecrets(p) ==
    /\ pc[p] = "read_secrets"
    /\ \E f \in SecretFiles :
         LET secret_id == FirstTruthy(f.data, IdKeys)
             secret_key == FirstTruthy(f.data, KeyKeys)
             good == f.json /\ TruthyStr(secret_id) /\ TruthyStr(secret_key)
         IN /\ Logged(p, "creds_read", good)
            /\ IF ~f.json THEN Raise(p, "JSONDecodeError")
               ELSE IF ~TruthyStr(secret_id) \/ ~TruthyStr(secret_key)
               THEN Raise(p, "RuntimeError")
               ELSE Goto(p, "token_new") /\ UNCHANGED locals
    /\ UNCHANGED <<diskVars, cmd, issued, secretsVars, balanceVars>>

\* token_new, lines 48-59
TokenNew(p) ==
    /\ pc[p] = "token_new"
    /\ \E status \in Statuses, body \in NewBodies :
         /\ Logged(p, "token_new", Success(status))
         /\ IF RaiseForStatus(status) THEN
                 Raise(p, "HTTPError") /\ UNCHANGED issued
            ELSE IF ~Has(body, "refresh") THEN
                 Raise(p, "KeyError") /\ UNCHANGED issued
            ELSE LET refresh_expires == Get(body, "refresh_expires", 0) IN
                 /\ refresh' = [refresh EXCEPT ![p] = body["refresh"]]
                 /\ refresh_expires_at' =
                        [refresh_expires_at EXCEPT ![p] = ExpiresAt(refresh_expires, now)]
                 /\ issued' = [issued EXCEPT ![p] =
                        [refresh |-> body["refresh"], life |-> refresh_expires,
                         t |-> now, status |-> status]]
                 /\ UNCHANGED <<out, values>>
                 /\ Goto(p, "write_cache")
    /\ UNCHANGED <<diskVars, cmd, secretsVars, balanceVars>>

\* get_refresh_token_cached, lines 80-84: the file is written and the frame
\* returns `refresh`
WriteCache(p) ==
    /\ pc[p] = "write_cache"
    /\ cache' = CacheRecord(refresh[p], refresh_expires_at[p])
    /\ refresh_expires_at' = [refresh_expires_at EXCEPT ![p] = 0]
    /\ Logged(p, "cache_write", TRUE)
    /\ Goto(p, "token_refresh")
    /\ UNCHANGED <<now, data_dir_exists, cmd, refresh, issued, out, values>>
    /\ UNCHANGED <<secretsVars, balanceVars>>

\* get_access_token / token_refresh, lines 62-65 and 89
TokenRefresh(p) ==
    /\ pc[p] = "token_refresh"
    /\ \E status \in Statuses, body \in RefreshBodies :
         /\ Logged(p, "token_refresh", Success(status))
         /\ IF RaiseForStatus(status) THEN Raise(p, "HTTPError")
            ELSE IF ~Has(body, "access") THEN Raise(p, "KeyError")
            ELSE /\ Goto(p, "request")
                 /\ refresh' = [refresh EXCEPT ![p] = None]
                 /\ UNCHANGED <<refresh_expires_at, out, values>>
    /\ issued' = [issued EXCEPT ![p] = <<>>]
    /\ UNCHANGED <<diskVars, cmd, secretsVars, balanceVars>>

\* gc_get / gc_post, lines 94-100 and 105-112
ApiRequest(p) ==
    /\ pc[p] = "request"
    /\ \E status \in Statuses, body \in ApiPayloads :
         /\ Logged(p, "api_request", Success(status))
         /\ IF RaiseForStatus(status) THEN Raise(p, "HTTPError")
            ELSE IF cmd[p] \in {"balance", "run"}
            THEN /\ out' = [out EXCEPT ![p] = body]
                 /\ UNCHANGED <<refresh, refresh_expires_at, values>>
                 /\ Goto(p, "choose_balance")
            ELSE UNCHANGED locals /\ Goto(p, "print")
    /\ UNCHANGED <<diskVars, cmd, issued, secretsVars, balanceVars>>

\* cmd_balance line 185, cmd_run lines 202-205
ChooseBalance(p) ==
    /\ pc[p] = "choose_balance"
    /\ \E env \in ApiPrefEnvs :
         LET c == choose_balance(out[p], env) IN
         /\ Logged(p, "choose_balance", c.ok)
         /\ IF ~c.ok THEN Raise(p, c.err)
            ELSE /\ values' = [values EXCEPT ![p] =
                        <<DecimalStr(c.amt), c.cur, c.btype, c.ref>>
                        \o (IF cmd[p] = "run" THEN <<now>> ELSE <<>>)]
                 /\ UNCHANGED <<refresh, refresh_expires_at, out>>
                 /\ Goto(p, IF cmd[p] = "run" THEN "sheets_write" ELSE "print")
    /\ UNCHANGED <<diskVars, cmd, issued, secretsVars, balanceVars>>

\* sheets_write, line 141
SheetsFind(p) ==
    /\ pc[p] = "sheets_write"
    /\ \E d \in DirStates :
         LET f == find_single_json(d) IN
         /\ Logged(p, "sheets_lookup", f.ok)
         /\ IF f.ok
            THEN Goto(p, "sheets_update") /\ UNCHANGED locals
            ELSE Raise(p, f.err)
    /\ UNCHANGED <<diskVars, cmd, issued, secretsVars, balanceVars>>

\* sheets_write, lines 142-152: the credentials file may be rejected before any
\* request is made; execute() raises on a status that is not 2xx
SheetsUpdate(p) ==
    /\ pc[p] = "sheets_update"
    /\ \/ /\ Logged(p, "sheets_credentials", FALSE)
          /\ Raise(p, "ValueError")
       \/ \E status \in Statuses :
            /\ Logged(p, "sheets_update", Success(status))
            /\ IF Success(status)
               THEN Goto(p, "print") /\ UNCHANGED locals
               ELSE Raise(p, "HttpError")
    /\ UNCHANGED <<diskVars, cmd, issued, secretsVars, balanceVars>>

\* the print that ends every command; the process then ends
Output(p) ==
    /\ pc[p] = "print"
    /\ Logged(p, "print", TRUE)
    /\ Goto(p, "done")
    /\ out' = [out EXCEPT ![p] = <<>>]
    /\ values' = [values EXCEPT ![p] = <<>>]
    /\ UNCHANGED <<diskVars, cmd, refresh, refresh_expires_at, issued>>
    /\ UNCHANGED <<secretsVars, balanceVars>>

\* the trigger may run the script again
Exit(p) ==
    /\ pc[p] \in {"done", "failed"}
    /\ pc' = [pc EXCEPT ![p] = "idle"]
    /\ cmd' = [cmd EXCEPT ![p] = None]
    /\ issued' = [issued EXCEPT ![p] = <<>>]
    /\ err' = [err EXCEPT ![p] = None]
    /\ log' = [log EXCEPT ![p] = <<>>]
    /\ UNCHANGED <<diskVars, locals, secretsVars, balanceVars>>

\* time passes
Tick ==
    /\ now + TickStep \in Times
    /\ now' = now + TickStep
    /\ UNCHANGED <<data_dir_exists, cache, procVars, secretsVars, balanceVars>>

\* any step of a running invocation
Step(p) ==
    \/ EnvCheck(p) \/ CacheCheck(p) \/ FindSecrets(p) \/ ReadSecrets(p)
    \/ TokenNew(p) \/ WriteCache(p) \/ TokenRefresh(p) \/ ApiRequest(p)
    \/ ChooseBalance(p) \/ SheetsFind(p) \/ SheetsUpdate(p) \/ Output(p)

-----------------------------------------------------------------------------
(* Specifications *)

ProcInit ==
    /\ pc = [p \in Procs |-> "idle"]
    /\ cmd = [p \in Procs |-> None]
    /\ refresh = [p \in Procs |-> None]
    /\ refresh_expires_at = [p \in Procs |-> 0]
    /\ issued = [p \in Procs |-> <<>>]
    /\ out = [p \in Procs |-> <<>>]
    /\ values = [p \in Procs |-> <<>>]
    /\ err = [p \in Procs |-> None]
    /\ log = [p \in Procs |-> <<>>]

DiskInit ==
    /\ now = 0
    /\ data_dir_exists \in BOOLEAN
    /\ cache \in InitCaches
    /\ ~data_dir_exists => cache = CacheAbsent

SecretsIdle ==
    /\ dir_path = [kind |-> "missing", entries |-> {}]
    /\ found = <<>>

BalanceIdle ==
    /\ balances_json = <<>>
    /\ env_pref = <<>>
    /\ selected = <<>>

\* Invocations one after another
Init == DiskInit /\ ProcInit /\ SecretsIdle /\ BalanceIdle

Next ==
    \/ \E p \in Procs : Start(p)
    \/ \E p \in Procs : EnvCheck(p)
    \/ \E p \in Procs : CacheCheck(p)
    \/ \E p \in Procs : FindSecrets(p)
    \/ \E p \in Procs : ReadSecrets(p)
    \/ \E p \in Procs : TokenNew(p)
    \/ \E p \in Procs : WriteCache(p)
    \/ \E p \in Procs : TokenRefresh(p)
    \/ \E p \in Procs : ApiRequest(p)
    \/ \E p \in Procs : ChooseBalance(p)
    \/ \E p \in Procs : SheetsFind(p)
    \/ \E p \in Procs : SheetsUpdate(p)
    \/ \E p \in Procs : Output(p)
    \/ \E p \in Procs : Exit(p)
    \/ Tick

Spec == Init /\ [][Next]_vars

\* Two invocations against the same cache file, neither waiting for the other
RaceNext ==
    \/ \E p \in Procs : StartConcurrent(p)
    \/ \E p \in Procs : CacheCheck(p)
    \/ \E p \in Procs : TornRead(p)
    \/ \E p \in Procs : FindSecrets(p)
    \/ \E p \in Procs : ReadSecrets(p)
    \/ \E p \in Procs : TokenNew(p)
    \/ \E p \in Procs : WriteCache(p)
    \/ \E p \in Procs : TokenRefresh(p)
    \/ \E p \in Procs : ApiRequest(p)
    \/ \E p \in Procs : Output(p)

RaceInit ==
    /\ now \in Times
    /\ data_dir_exists \in BOOLEAN
    /\ cache \in InitCaches
    /\ ~data_dir_exists => cache = CacheAbsent
    /\ ProcInit /\ SecretsIdle /\ BalanceIdle

SpecRace == RaceInit /\ [][RaceNext]_vars

\* find_single_json on its own
SecretsInit ==
    /\ DiskInit /\ now = 0 /\ data_dir_exists /\ cache = CacheAbsent
    /\ ProcInit /\ BalanceIdle
    /\ dir_path \in DirStates
    /\ found = <<>>

CallFindSingleJson ==
    /\ found = <<>>
    /\ found' = find_single_json(dir_path)
    /\ UNCHANGED <<diskVars, procVars, dir_path, balanceVars>>

SpecSecrets == SecretsInit /\ [][CallFindSingleJson]_vars

\* choose_balance on its own
BalanceInit ==
    /\ DiskInit /\ now = 0 /\ data_dir_exists /\ cache = CacheAbsent
    /\ ProcInit /\ SecretsIdle
    /\ balances_json \in Payloads
    /\ env_pref \in PrefEnvs
    /\ selected = <<>>

CallChooseBalance ==
    /\ selected = <<>>
    /\ selected' = choose_balance(balances_json, env_pref)
    /\ UNCHANGED <<diskVars, procVars, secretsVars, balances_json, env_pref>>

SpecBalance == BalanceInit /\ [][CallChooseBalance]_vars

-----------------------------------------------------------------------------
(* Reading an invocation's log *)

Ops(p, op) == {i \in 1..Len(log[p]) : log[p][i].op = op}
Count(p, op) == Cardinality(Ops(p, op))
Did(p, op) == Ops(p, op) # {}
DidOk(p, op) == \E i \in Ops(p, op) : log[p][i].ok
OpsSeq(p) == [i \in 1..Len(log[p]) |-> log[p][i].op]
AllOk(p, n) == \A i \in 1..n : log[p][i].ok
LastOp(p) == IF log[p] = <<>> THEN None ELSE log[p][Len(log[p])].op
LastOk(p) == log[p] # <<>> /\ log[p][Len(log[p])].ok

\* what the invocation's cache check found in the file
SawAtRead(p) ==
    IF Did(p, "cache_read")
    THEN log[p][CHOOSE i \in Ops(p, "cache_read") : TRUE].saw
    ELSE None

\* the invocation is inside the acquisition of a new token
Acquiring(p) == pc[p] \in {"load_secrets", "read_secrets", "token_new", "write_cache"}

\* the record a /token/new/ answer stands for
RecordOf(i) ==
    CacheObject([refresh |-> i.refresh,
                 refresh_expires_at |-> IF i.life = 0 THEN 0 ELSE i.t + i.life])

\* the expiry a cache file records, 0 when it records none
RecordedExpiry(c) ==
    IF c.kind = "object" /\ Has(c.data, "refresh_expires_at")
    THEN c.data["refresh_expires_at"] ELSE 0

IsPrefix(a, b) == Len(a) <= Len(b) /\ \A i \in 1..Len(a) : a[i] = b[i]

-----------------------------------------------------------------------------
(* Claims *)

\* C1: a call of get_refresh_token_cached that finds a non-empty refresh token
\* with expiry 0, or with now < expiry - 60, returns exactly the cached string
\* and neither looks up or reads the credentials nor calls /token/new/.
C1_CacheHit ==
    \A p \in Procs :
        SawAtRead(p) \in {"zero", "future"} =>
            /\ ~Acquiring(p)
            /\ ~Did(p, "secrets_lookup") /\ ~Did(p, "creds_read")
            /\ ~Did(p, "token_new") /\ ~Did(p, "cache_write")
            /\ LastOp(p) = "cache_read" => pc[p] = "token_refresh"
            /\ pc[p] = "token_refresh" =>
                   /\ cache.kind = "object"
                   /\ refresh[p] = cache.data["refresh"]

\* C1 witness: a token cached by an earlier invocation, not yet within the
\* margin, is the one a later invocation is about to send.
C1_Witness ==
    \E p \in Procs :
        /\ pc[p] = "token_refresh"
        /\ SawAtRead(p) = "future"
        /\ refresh[p] = "r1"

\* C2, as claimed: a call that finds no cache file, or a cache inside the margin
\* or expired, has made exactly one /token/new/ call by the time the invocation
\* ends.
C2_Original ==
    \A p \in Procs :
        (SawAtRead(p) \in {"absent", "stale"} /\ pc[p] \in {"done", "failed"}) =>
            Count(p, "token_new") = 1

\* C2, amended: such a call looks the credentials up; once they are loaded it
\* makes exactly one /token/new/ call (none when they cannot be loaded), and when
\* that call succeeds the call returns the issued token with the cache file
\* holding it together with issue time + lifetime, or 0 for no lifetime.
C2_CacheMiss ==
    \A p \in Procs :
        SawAtRead(p) \in {"absent", "stale"} =>
            /\ Count(p, "token_new") <= 1
            /\ LastOp(p) = "cache_read" => pc[p] = "load_secrets"
            /\ (DidOk(p, "creds_read") /\ pc[p] # "token_new") => Count(p, "token_new") = 1
            /\ Did(p, "token_new") => DidOk(p, "creds_read")
            /\ ~DidOk(p, "creds_read") => (~Did(p, "cache_write") /\ ~Did(p, "token_refresh"))
            /\ pc[p] = "token_refresh" =>
                   /\ issued[p] # <<>>
                   /\ LastOp(p) = "cache_write"
                   /\ cache = RecordOf(issued[p])
                   /\ refresh[p] = issued[p].refresh

\* C2 witness: a cache inside the margin was replaced by a token with a lifetime,
\* issued after time had passed.
C2_Witness ==
    \E p \in Procs :
        /\ pc[p] = "token_refresh"
        /\ SawAtRead(p) = "stale"
        /\ issued[p] # <<>>
        /\ issued[p].life > 0
        /\ issued[p].t > 0

HitRun ==
    <<"env_check", "cache_read", "token_refresh", "api_request", "choose_balance",
      "sheets_lookup", "sheets_update", "print">>
MissRun ==
    <<"env_check", "cache_read", "secrets_lookup", "creds_read", "token_new",
      "cache_write", "token_refresh", "api_request", "choose_balance",
      "sheets_lookup", "sheets_update", "print">>

\* C3: a finished run either succeeded after the whole sequence, every step of it
\* successful and the spreadsheet written exactly once, or failed without a
\* spreadsheet write; the write is attempted only after every earlier step of the
\* same invocation succeeded.
C3_NoPartialRun ==
    \A p \in Procs :
        cmd[p] = "run" =>
            /\ pc[p] = "done" =>
                   /\ OpsSeq(p) \in {HitRun, MissRun}
                   /\ AllOk(p, Len(log[p]))
                   /\ Count(p, "sheets_update") = 1
            /\ pc[p] = "failed" => ~DidOk(p, "sheets_update")
            /\ \A i \in Ops(p, "sheets_update") :
                   /\ AllOk(p, i - 1)
                   /\ \/ IsPrefix(SubSeq(OpsSeq(p), 1, i), HitRun)
                      \/ IsPrefix(SubSeq(OpsSeq(p), 1, i), MissRun)

\* C3 witness: a run that had to mint a token wrote the spreadsheet and finished.
C3_Witness ==
    \E p \in Procs :
        /\ cmd[p] = "run"
        /\ pc[p] = "done"
        /\ Did(p, "cache_write")
        /\ DidOk(p, "sheets_update")

\* the types a payload holds, and the record the preference list stands for
PayloadTypes(bs) == {TypeOf(bs[i]) : i \in 1..Len(bs)} \ {<<>>}
Expected(bs, pref) ==
    LET ks == {k \in 1..Len(pref) : pref[k] \in PayloadTypes(bs)} IN
    IF ks = {} THEN bs[1]
    ELSE LET t == pref[CHOOSE k \in ks : \A j \in ks : k <= j]
         IN bs[CHOOSE i \in 1..Len(bs) :
                  /\ TypeOf(bs[i]) = t
                  /\ \A j \in 1..Len(bs) : TypeOf(bs[j]) = t => j <= i]
Reverse(bs) == [i \in 1..Len(bs) |-> bs[Len(bs) + 1 - i]]
Returned(r) == <<DecimalStr(r.amt), r.cur, r.btype>>
FieldsOf(b) == <<b["balanceAmount"]["amount"], b["balanceAmount"]["currency"], TypeOf(b)>>

\* C4: for a non-empty balance list choose_balance returns the record of the
\* earliest preference entry that occurs among the payload's types, the later
\* record when two share that type, and the first record of the payload when no
\* type is preferred; the type it returns does not depend on the payload's order.
C4_BalanceSelection ==
    (selected # <<>> /\ Get(balances_json, "balances", <<>>) # <<>>) =>
        LET bs == balances_json["balances"]
            pref == Preferred(env_pref)
            want == Expected(bs, pref)
            back == choose_balance([balances |-> Reverse(bs)], env_pref)
        IN /\ selected.ok <=> want["balanceAmount"]["amount"] \in {"1.00", "2.5"}
           /\ selected.ok => Returned(selected) = FieldsOf(want)
           /\ (selected.ok /\ back.ok /\ selected.btype \in {pref[k] : k \in 1..Len(pref)})
                  => back.btype = selected.btype

\* C4 witness: interimAvailable before closingBooked in the payload, default
\* preference, closingBooked returned.
C4_Witness ==
    /\ selected # <<>>
    /\ env_pref = <<>>
    /\ Get(balances_json, "balances", <<>>) # <<>>
    /\ Len(balances_json["balances"]) = 2
    /\ TypeOf(balances_json["balances"][1]) = <<"interimAvailable">>
    /\ TypeOf(balances_json["balances"][2]) = <<"closingBooked">>
    /\ selected.ok
    /\ selected.btype = <<"closingBooked">>

\* C5: a non-success answer of /token/new/ or /token/refresh/ ends the invocation
\* at once; each of the two endpoints is called at most once per invocation and
\* nothing is done after the failed call.
C5_FatalTokenFailures ==
    \A p \in Procs :
        /\ Count(p, "token_new") <= 1
        /\ Count(p, "token_refresh") <= 1
        /\ \A i \in Ops(p, "token_new") \cup Ops(p, "token_refresh") :
               ~log[p][i].ok => (i = Len(log[p]) /\ pc[p] = "failed" /\ err[p] = "HTTPError")

\* C5 witness: the refresh endpoint refused a token that had just been issued.
C5_Witness ==
    \E p \in Procs :
        /\ pc[p] = "failed"
        /\ DidOk(p, "token_new")
        /\ LastOp(p) = "token_refresh"
        /\ ~LastOk(p)

\* C6: the cache file changes only in the step that follows a successful
\* /token/new/ call of the same invocation, and then to exactly the issued token
\* with its computed expiry; every other step leaves it unchanged.
C6_CacheFrame ==
    [][cache' # cache =>
          \E p \in Procs :
              /\ pc[p] = "write_cache" /\ pc'[p] = "token_refresh"
              /\ LastOp(p) = "token_new" /\ LastOk(p)
              /\ issued[p] # <<>>
              /\ cache' = RecordOf(issued[p])]_vars

\* C6 witness: the file was just rewritten with a token that has no expiry,
\* over a file that held something else.
C6_Witness ==
    \E p \in Procs :
        /\ LastOp(p) = "cache_write"
        /\ SawAtRead(p) = "stale"
        /\ issued[p] # <<>>
        /\ issued[p].life = 0
        /\ cache = RecordOf(issued[p])

\* C7, as claimed: a cache object lacking the refresh key, the refresh_expires_at
\* key or both is treated as absent, so the call goes on to mint a token.
C7_Original ==
    \A p \in Procs :
        (SawAtRead(p) \in {"no_refresh", "no_expiry"} /\ LastOp(p) = "cache_read") =>
            pc[p] = "load_secrets"

\* C7, amended: a cache object lacking the refresh key is treated as absent and
\* the call goes on to mint a token, never reusing the file; one that holds a
\* refresh token but no refresh_expires_at key is read as expiry 0 and its token
\* is returned without an issuance call; a file that is not JSON ends the
\* invocation with no issuance call and the file untouched.
C7_DamagedCache ==
    \A p \in Procs :
        /\ SawAtRead(p) = "no_refresh" =>
               /\ LastOp(p) = "cache_read" => pc[p] = "load_secrets"
               /\ Did(p, "token_refresh") \/ pc[p] = "token_refresh" => DidOk(p, "token_new")
               /\ pc[p] = "token_refresh" => refresh[p] = issued[p].refresh
        /\ SawAtRead(p) = "no_expiry" =>
               /\ ~Acquiring(p) /\ ~Did(p, "token_new")
               /\ LastOp(p) = "cache_read" => pc[p] = "token_refresh"
               /\ pc[p] = "token_refresh" => refresh[p] = cache.data["refresh"]
        /\ SawAtRead(p) = "garbage" =>
               /\ pc[p] = "failed" /\ err[p] = "JSONDecodeError"
               /\ LastOp(p) = "cache_read"
               /\ ~Did(p, "token_new")
               /\ cache = CacheGarbage

\* C7 witness: a file holding a refresh token and no expiry key served its token.
C7_Witness ==
    \E p \in Procs :
        /\ SawAtRead(p) = "no_expiry"
        /\ pc[p] = "token_refresh"
        /\ refresh[p] = "r0"

\* a regular file with a .json extension, in either case
IsJsonFile(e) == e.is_file /\ e.suffix \in {".json", ".JSON"}

\* C8: find_single_json succeeds, returning the file, exactly when the directory
\* exists and holds exactly one regular .json file; a missing directory and a
\* directory with none or several such files fail with the configuration error
\* (RuntimeError); the directory is only read.
C8_SecretsLookup ==
    found # <<>> =>
        LET js == {e \in dir_path.entries : IsJsonFile(e)} IN
        /\ found.ok <=> (dir_path.kind = "dir" /\ Cardinality(js) = 1)
        /\ found.ok => found.file \in js
        /\ (~found.ok /\ dir_path.kind \in {"missing", "dir"}) =>
               (found.err = "RuntimeError" /\ found.n = Cardinality(js))

\* C8 witness: one .json file next to another entry, and the file is returned.
C8_Witness ==
    /\ found # <<>>
    /\ found.ok
    /\ Cardinality(dir_path.entries) = 2

\* the invocation's get_refresh_token_cached call returns in this step
Returns(p) == pc[p] # "token_refresh" /\ pc'[p] = "token_refresh"

\* C9, as claimed: every refresh token the call returns has, when it is
\* returned, a recorded expiry of 0 or more than 60 seconds ahead, whether it
\* came from the cache or was just issued.
C9_Original ==
    [][\A p \in Procs :
          Returns(p) =>
              (RecordedExpiry(cache') = 0 \/ RecordedExpiry(cache') > now' + Margin)]_vars

\* C9, amended: a token served from the cache has, when it is returned, a
\* recorded expiry of 0 or more than 60 seconds ahead; a token just issued is
\* returned whatever its lifetime, its recorded expiry being 0 or issue time +
\* lifetime, so it is more than 60 seconds ahead only for a lifetime above 60.
C9_MarginOnCacheHits ==
    [][\A p \in Procs :
          Returns(p) =>
              IF pc[p] = "get_refresh"
              THEN RecordedExpiry(cache') = 0 \/ RecordedExpiry(cache') > now' + Margin
              ELSE /\ issued[p] # <<>>
                   /\ RecordedExpiry(cache') =
                          (IF issued[p].life = 0 THEN 0 ELSE issued[p].t + issued[p].life)
                   /\ (issued[p].life > Margin /\ issued[p].t = now')
                          => RecordedExpiry(cache') > now' + Margin]_vars

\* C9 witness: a token issued with a lifetime inside the margin is about to be
\* sent to the refresh endpoint.
C9_Witness ==
    \E p \in Procs :
        /\ pc[p] = "token_refresh"
        /\ issued[p] # <<>>
        /\ issued[p].life > 0
        /\ issued[p].life <= Margin

\* C10: with two invocations running against one cache file, each invocation that
\* mints a token returns the token it was issued itself, every write replaces the
\* file with the writer's own record (so the file holds the record of whoever
\* wrote last), and a running invocation always has a step it can take whatever
\* the other one is doing.
C10_UnlockedRace ==
    /\ [](\A p \in Procs :
            /\ (pc[p] = "token_refresh" /\ issued[p] # <<>>) =>
                   refresh[p] = issued[p].refresh
            /\ pc[p] \notin {"idle", "done", "failed"} => ENABLED Step(p))
    /\ [][\A p \in Procs :
            (pc[p] = "write_cache" /\ pc'[p] # "write_cache") =>
                cache' = RecordOf(issued[p])]_vars

\* C10 witness: both invocations found no cache file, both minted a token and
\* wrote the file; the file holds one invocation's record while the other still
\* holds the different token it was issued.
C10_Witness ==
    \E p, q \in Procs :
        /\ p # q
        /\ SawAtRead(p) = "absent" /\ SawAtRead(q) = "absent"
        /\ pc[p] = "token_refresh" /\ pc[q] = "token_refresh"
        /\ LastOp(p) = "cache_write" /\ LastOp(q) = "cache_write"
        /\ issued[p].refresh # issued[q].refresh
        /\ cache = RecordOf(issued[q])
        /\ refresh[p] = issued[p].refresh
        /\ refresh[p] # cache.data["refresh"]

====
